---- MODULE Spec2Model ----
(***************************************************************************)
(* ROIFinder (src/roi_utils_class.py): neighbour-correlation clustering of *)
(* voxels.  A coordinate is a triple <<x, y, z>>, 0-based as in numpy.  A  *)
(* volume is represented by its shape; the data it holds is seen only      *)
(* through scipy's pearsonr, which is the variable pearson: the (r, p) it  *)
(* returns for the profiles of each pair of adjacent voxels.  r is kept in *)
(* tenths and p in thousandths, so that the thresholds are integers.       *)
(***************************************************************************)
EXTENDS Integers, Sequences, FiniteSets, TLC

VARIABLES
    args,               \* the arguments given to ROIFinder(...)
    volumes,            \* self.volumes: the shape of each subject's volume
    volume_shape,       \* self.volume_shape
    r_threshold,        \* self.r_threshold (tenths)
    p_threshold,        \* self.p_threshold (thousandths)
    min_cluster_size,   \* self.min_cluster_size
    n_jobs,             \* self.n_jobs
    cluster_array,      \* self.cluster_array
    pearson,            \* pearsonr's (r, p) for each pair of adjacent voxels
    pc,                 \* "new", "ready", "loop", "done", "IndexError", "calls", "called"
    k,                  \* how many indices of np.ndindex the loop has consumed
    visits,             \* how often each coordinate was given to _compute_clusters
    center_index,       \* locals of the last _compute_clusters call
    neighbor_indices,
    correlation_scores,
    call                \* the last direct call of a method and what it returned

vars == <<args, volumes, volume_shape, r_threshold, p_threshold,
          min_cluster_size, n_jobs, cluster_array, pearson, pc, k, visits,
          center_index, neighbor_indices, correlation_scores, call>>

\* ---------------------------------------------------------------- bounds
MaxDim == 3             \* largest extent of an axis
MaxVoxels == 4          \* largest volume (in voxels) a pass is run on
MaxMinClusterSize == 2  \* largest min_cluster_size
MaxJobs == 2            \* largest n_jobs argument
MaxCpus == 2            \* largest os.cpu_count()
MaxSubjects == 2        \* longest list of volumes given to the constructor

\* ------------------------------------------------------- class constants
TOY_DIM == 10
N_TOY_SUBJECTS == 5
R_THRESHOLD == 5        \* 0.5, in tenths
P_TRESHOLD == 5         \* 0.005, in thousandths

DIRECTIONS ==
    [front |-> <<-1, 0, 0>>, back   |-> <<1, 0, 0>>,
     top   |-> <<0, -1, 0>>, bottom |-> <<0, 1, 0>>,
     left  |-> <<0, 0, -1>>, right  |-> <<0, 0, 1>>]

\* The order in which a dict built from DIRECTIONS is iterated.
DirOrder == <<"front", "back", "top", "bottom", "left", "right">>

\* Python's None, and an attribute that is not set yet.
None == <<>>

\* ------------------------------------------------------------- helpers
Abs(x) == IF x < 0 THEN -x ELSE x

Add(c, d) == <<c[1] + d[1], c[2] + d[2], c[3] + d[3]>>

\* The index space of a shape: what np.ndindex(shape) yields.
Coords(shape) ==
    {<<x, y, z>> : x \in 0..(shape[1] - 1), y \in 0..(shape[2] - 1),
                   z \in 0..(shape[3] - 1)}

NVoxels(shape) == shape[1] * shape[2] * shape[3]

\* NdIndex with the last axis stuck at 0: the loop repeats some coordinates
\* and skips the others.
NdIndex_last_axis_stuck(shape, i) ==
    <<i \div (shape[2] * shape[3]), (i \div shape[3]) % shape[2], 0>>

\* The i-th index (from 0) np.ndindex yields: row-major, last axis fastest.
NdIndex(shape, i) ==
    <<i \div (shape[2] * shape[3]), (i \div shape[3]) % shape[2], i % shape[3]>>

\* np.zeros(shape, dtype=int)
Zeros(shape) == [c \in Coords(shape) |-> 0]

\* ------------------------------------------------------- the methods
make_toy_data(dim) == [s \in 1..N_TOY_SUBJECTS |-> <<dim, dim, dim>>]

\* lines 36-46: self.volumes from the volumes argument.
VolumesOf(a) ==
    CASE a.kind = "ndarray" -> [s \in 1..a.n |-> a.shape]
      [] a.kind = "list"    -> a.shapes
      [] a.kind = "int"     -> make_toy_data(a.dim)
      [] a.kind = "None"    -> make_toy_data(TOY_DIM)

\* line 57
CapJobs(jobs, n_cpus) == IF jobs <= n_cpus THEN jobs ELSE n_cpus

\* _index_check with the upper bound off by one (n > dim instead of
\* n > dim - 1).
index_check_off_by_one(shape, indices) ==
    IF \E i \in 1..3 : indices[i] < 0 \/ indices[i] > shape[i]
    THEN None
    ELSE indices

\* _index_check: the indices, or None when one is outside the volume.
index_check(shape, indices) ==
    IF \E i \in 1..3 : indices[i] < 0 \/ indices[i] > shape[i] - 1
    THEN None
    ELSE indices

\* get_neighbor_indices: a dict from the kept directions to coordinates.
get_neighbor_indices(shape, center) ==
    LET kept == {key \in DOMAIN DIRECTIONS :
                    index_check(shape, Add(center, DIRECTIONS[key])) # None}
    IN  [key \in kept |-> Add(center, DIRECTIONS[key])]

\* v[index] of numpy for one volume: an axis index in [-dim, dim-1] is valid
\* and a negative one counts from the end; anything else is an IndexError.
NumpyIndexOk(shape, index) ==
    \A i \in 1..3 : index[i] >= -shape[i] /\ index[i] <= shape[i] - 1

NumpyWrap(shape, index) ==
    [i \in 1..3 |-> IF index[i] < 0 THEN index[i] + shape[i] ELSE index[i]]

\* get_voxels: the profile at index, one entry per volume.  An entry is the
\* coordinate of the voxel that was read in that volume.
get_voxels(vols, index) ==
    IF \A s \in 1..Len(vols) : NumpyIndexOk(vols[s], index)
    THEN [outcome |-> "ok",
          value |-> [s \in 1..Len(vols) |-> NumpyWrap(vols[s], index)]]
    ELSE [outcome |-> "IndexError", value |-> None]

\* get_neighbor_voxels
get_neighbor_voxels(vols, indices) ==
    [key \in DOMAIN indices |-> get_voxels(vols, indices[key]).value]

\* scipy.stats.pearsonr on two profiles read from a VolumeSet.
pearsonr(x, y) == pearson[{x[1], y[1]}]

\* line 103 with the test on r inclusive.
Accepted_r_inclusive(rp, r_th, p_th) ==
    (Abs(rp[1]) >= r_th) /\ (rp[2] <= p_th)

\* line 103
Accepted(rp, r_th, p_th) == (Abs(rp[1]) > r_th) /\ (rp[2] <= p_th)

\* compute_correlation
compute_correlation(center_voxels, neighbor_voxels, r_th, p_th) ==
    LET kept == {key \in DOMAIN neighbor_voxels :
                    Accepted(pearsonr(center_voxels, neighbor_voxels[key]),
                             r_th, p_th)}
    IN  [key \in kept |-> pearsonr(center_voxels, neighbor_voxels[key])]

\* lines 112-118: the array after the loop over correlation_scores.items()
\* has gone through the first i keys, started on arr.
RECURSIVE WriteLoop(_, _, _, _, _)
WriteLoop(arr, scores, center_idx, nbr_indices, i) ==
    IF i = 0 THEN arr
    ELSE LET key == DirOrder[i]
             before == WriteLoop(arr, scores, center_idx, nbr_indices, i - 1)
         IN  IF key \in DOMAIN scores
             THEN [[before EXCEPT ![nbr_indices[key]] = 1]
                           EXCEPT ![center_idx] = 2]
             ELSE before

\* update_cluster_array without the test on min_cluster_size.
update_cluster_array_no_gate(arr, scores, center_idx, nbr_indices, mcs) ==
    WriteLoop(arr, scores, center_idx, nbr_indices, Len(DirOrder))

\* update_cluster_array that clears the centre of a cluster that is too small.
update_cluster_array_clear(arr, scores, center_idx, nbr_indices, mcs) ==
    IF Cardinality(DOMAIN scores) >= mcs
    THEN WriteLoop(arr, scores, center_idx, nbr_indices, Len(DirOrder))
    ELSE [arr EXCEPT ![center_idx] = 0]

\* update_cluster_array with the test on min_cluster_size strict.
update_cluster_array_strict(arr, scores, center_idx, nbr_indices, mcs) ==
    IF Cardinality(DOMAIN scores) > mcs
    THEN WriteLoop(arr, scores, center_idx, nbr_indices, Len(DirOrder))
    ELSE arr

\* update_cluster_array
update_cluster_array(arr, scores, center_idx, nbr_indices, mcs) ==
    IF Cardinality(DOMAIN scores) >= mcs
    THEN WriteLoop(arr, scores, center_idx, nbr_indices, Len(DirOrder))
    ELSE arr

\* ------------------------------------------------------------- inputs
Shapes == (1..MaxDim) \X (1..MaxDim) \X (1..MaxDim)

PassShapes == {s \in Shapes : NVoxels(s) <= MaxVoxels}

\* Pairs of adjacent voxels of a volume.
Edges(shape) ==
    {e \in {{c, d} : c \in Coords(shape), d \in Coords(shape)} :
        \E c \in e, key \in DOMAIN DIRECTIONS :
            e = {c, Add(c, DIRECTIONS[key])}}

\* The (r, p) results pearsonr gives: r just above the default threshold,
\* the same negative, and r at the default threshold.  For one number of
\* subjects p depends on abs(r) alone and grows as abs(r) falls.
RPVals ==
    {<<R_THRESHOLD + 1, P_TRESHOLD>>, <<-(R_THRESHOLD + 1), P_TRESHOLD>>,
     <<R_THRESHOLD, P_TRESHOLD + 1>>}

\* The thresholds a caller may configure: the defaults, and one step to the
\* side of the results above.
RThresholds == {R_THRESHOLD - 1, R_THRESHOLD}
PThresholds == {P_TRESHOLD, P_TRESHOLD + 1}

NoCall == [op |-> "none", arg |-> None, outcome |-> "none", result |-> None]

\* The arguments a constructor call may be given.
VolumeArgs ==
    {[kind |-> "list", shapes |-> ss] :
        ss \in UNION {[1..n -> PassShapes] : n \in 0..MaxSubjects}}
    \cup {[kind |-> "ndarray", n |-> n, shape |-> s] :
            n \in 0..MaxSubjects, s \in PassShapes}
    \cup {[kind |-> "int", dim |-> d] : d \in 1..MaxDim}
    \cup {[kind |-> "None"]}

\* ------------------------------------------------------- construction
\* __init__: the attributes of the new object, or the exception it ends in
\* (self.volumes[0] of an empty list).
NewROIFinder(a, n_cpus) ==
    LET vols == VolumesOf(a.volumes)
    IN  IF Len(vols) = 0
        THEN [outcome |-> "IndexError", volumes |-> vols,
              volume_shape |-> None, r_threshold |-> None,
              p_threshold |-> None, min_cluster_size |-> None,
              n_jobs |-> None, cluster_array |-> None]
        ELSE [outcome |-> "ok", volumes |-> vols,
              volume_shape |-> vols[1],
              r_threshold |-> a.r_threshold,
              p_threshold |-> a.p_threshold,
              min_cluster_size |-> a.min_cluster_size,
              n_jobs |-> CapJobs(a.n_jobs, n_cpus),
              cluster_array |-> Zeros(vols[1])]

\* No pass has started and no method was called.
Idle ==
    /\ k = 0
    /\ center_index = None
    /\ neighbor_indices = None
    /\ correlation_scores = None
    /\ call = NoCall

\* An object built from a list of volumes of one shape.  Two entries stand
\* for the subjects: their number and their data show only in pearson.
Built(shape, r_th, p_th, jobs, mcs, n_cpus) ==
    LET a == [volumes |-> [kind |-> "list", shapes |-> <<shape, shape>>],
              r_threshold |-> r_th, p_threshold |-> p_th,
              n_jobs |-> jobs, min_cluster_size |-> mcs]
        o == NewROIFinder(a, n_cpus)
    IN  /\ args = a
        /\ volumes = o.volumes
        /\ volume_shape = o.volume_shape
        /\ r_threshold = o.r_threshold
        /\ p_threshold = o.p_threshold
        /\ min_cluster_size = o.min_cluster_size
        /\ n_jobs = o.n_jobs
        /\ cluster_array = o.cluster_array
        /\ visits = Zeros(shape)

\* The state after ROIFinder(volumes=[v1, v2], r_threshold=.., p_threshold=..,
\* n_jobs=.., min_cluster_size=..).
Init ==
    \E shape \in PassShapes, r_th \in RThresholds, p_th \in PThresholds,
       jobs \in 0..MaxJobs, n_cpus \in 1..MaxCpus,
       mcs \in 1..MaxMinClusterSize :
        /\ Built(shape, r_th, p_th, jobs, mcs, n_cpus)
        /\ pearson \in [Edges(shape) -> RPVals]
        /\ pc = "ready"
        /\ Idle

\* ------------------------------------------------------------ the pass
\* self.cluster_array after _compute_clusters(index) has run on arr.
ArrayAfter(arr, index) ==
    LET nbr_indices == get_neighbor_indices(volume_shape, index)
    IN  update_cluster_array(
            arr,
            compute_correlation(get_voxels(volumes, index).value,
                                get_neighbor_voxels(volumes, nbr_indices),
                                r_threshold, p_threshold),
            index, nbr_indices, min_cluster_size)

\* _compute_clusters(index): each local is computed once, then the array is
\* updated.
compute_clusters(index) ==
    \E center_voxels \in {get_voxels(volumes, index).value} :
    \E nbr_indices \in {get_neighbor_indices(volume_shape, index)} :
    \E nbr_voxels \in {get_neighbor_voxels(volumes, nbr_indices)} :
    \E scores \in {compute_correlation(center_voxels, nbr_voxels,
                                       r_threshold, p_threshold)} :
        /\ center_index' = index
        /\ neighbor_indices' = nbr_indices
        /\ correlation_scores' = scores
        /\ cluster_array' = update_cluster_array(cluster_array, scores, index,
                                                 nbr_indices, min_cluster_size)
        /\ visits' = [visits EXCEPT ![index] = @ + 1]

\* find_clusters is called: the loop runs only if self.n_jobs >= 1.
find_clusters ==
    /\ pc = "ready"
    /\ pc' = IF n_jobs >= 1 THEN "loop" ELSE "done"
    /\ UNCHANGED <<args, volumes, volume_shape, r_threshold, p_threshold,
                   min_cluster_size, n_jobs, cluster_array, pearson, k,
                   visits, center_index, neighbor_indices,
                   correlation_scores, call>>

\* One iteration of "for index in np.ndindex(self.volume_shape)".
LoopStep ==
    /\ pc = "loop"
    /\ \E index \in {NdIndex(volume_shape, k)} : compute_clusters(index)
    /\ k' = k + 1
    /\ pc' = IF k + 1 = NVoxels(volume_shape) THEN "done" ELSE "loop"
    /\ UNCHANGED <<args, volumes, volume_shape, r_threshold, p_threshold,
                   min_cluster_size, n_jobs, pearson, call>>

Next == find_clusters \/ LoopStep

Spec == Init /\ [][Next]_vars

\* The loop is sequential code: it runs until it ends.
LiveSpec == Spec /\ WF_vars(Next)

\* ------------------------------------------------- the pass, in any order
\* The same pass with the centres taken in any order: each iteration takes
\* some coordinate that was not a centre yet.
AnyOrderStep ==
    /\ pc = "loop"
    /\ \E index \in Coords(volume_shape) :
           /\ visits[index] = 0
           /\ compute_clusters(index)
    /\ k' = k + 1
    /\ pc' = IF k + 1 = NVoxels(volume_shape) THEN "done" ELSE "loop"
    /\ UNCHANGED <<args, volumes, volume_shape, r_threshold, p_threshold,
                   min_cluster_size, n_jobs, pearson, call>>

NextAnyOrder == find_clusters \/ AnyOrderStep

SpecAnyOrder == Init /\ [][NextAnyOrder]_vars

\* ---------------------------------------------- the constructor, called
ConstructorArgs ==
    {[volumes |-> v, r_threshold |-> r_th, p_threshold |-> p_th,
      n_jobs |-> j, min_cluster_size |-> m] :
        v \in VolumeArgs, r_th \in RThresholds, p_th \in PThresholds,
        j \in 0..MaxJobs, m \in 1..MaxMinClusterSize}

InitNew ==
    /\ args \in ConstructorArgs
    /\ pc = "new"
    /\ volumes = None
    /\ volume_shape = None
    /\ r_threshold = None
    /\ p_threshold = None
    /\ min_cluster_size = None
    /\ n_jobs = None
    /\ cluster_array = None
    /\ visits = None
    /\ pearson = None
    /\ Idle

\* ROIFinder(**args) on a machine with n_cpus processors.
ROIFinder_init ==
    /\ pc = "new"
    /\ \E n_cpus \in 1..MaxCpus :
        LET o == NewROIFinder(args, n_cpus)
        IN  /\ pc' = IF o.outcome = "ok" THEN "ready" ELSE o.outcome
            /\ volumes' = o.volumes
            /\ volume_shape' = o.volume_shape
            /\ r_threshold' = o.r_threshold
            /\ p_threshold' = o.p_threshold
            /\ min_cluster_size' = o.min_cluster_size
            /\ n_jobs' = o.n_jobs
            /\ cluster_array' = o.cluster_array
    /\ UNCHANGED <<args, pearson, k, visits, center_index, neighbor_indices,
                   correlation_scores, call>>

SpecInit == InitNew /\ [][ROIFinder_init]_vars

\* ------------------------------------------- the methods, called directly
\* One call of a method on a built object.  The two methods read the object
\* and change nothing, so one call per behaviour shows all they can do.
\* Coordinates a caller may pass: inside the volume, or up to one outside.
CallArgs == ((-1)..MaxDim) \X ((-1)..MaxDim) \X ((-1)..MaxDim)

InitCalls ==
    \E shape \in Shapes :
        /\ Built(shape, R_THRESHOLD, P_TRESHOLD, 1, 2, 1)
        /\ pearson = None
        /\ pc = "calls"
        /\ Idle

call_get_neighbor_indices ==
    /\ pc = "calls"
    /\ \E c \in CallArgs :
        call' = [op |-> "get_neighbor_indices", arg |-> c,
                 outcome |-> "returned",
                 result |-> get_neighbor_indices(volume_shape, c)]
    /\ pc' = "called"
    /\ UNCHANGED <<args, volumes, volume_shape, r_threshold, p_threshold,
                   min_cluster_size, n_jobs, cluster_array, pearson, k,
                   visits, center_index, neighbor_indices,
                   correlation_scores>>

call_get_voxels ==
    /\ pc = "calls"
    /\ \E c \in CallArgs :
        LET r == get_voxels(volumes, c)
        IN  call' = [op |-> "get_voxels", arg |-> c,
                     outcome |-> IF r.outcome = "ok" THEN "returned"
                                 ELSE r.outcome,
                     result |-> r.value]
    /\ pc' = "called"
    /\ UNCHANGED <<args, volumes, volume_shape, r_threshold, p_threshold,
                   min_cluster_size, n_jobs, cluster_array, pearson, k,
                   visits, center_index, neighbor_indices,
                   correlation_scores>>

NextCalls == call_get_neighbor_indices \/ call_get_voxels

SpecCalls == InitCalls /\ [][NextCalls]_vars

\* ================================================================ claims
InBounds(shape, c) == \A i \in 1..3 : c[i] >= 0 /\ c[i] <= shape[i] - 1

\* The axes along which c lies on a boundary face of the volume.
FaceAxes(shape, c) == {i \in 1..3 : c[i] = 0 \/ c[i] = shape[i] - 1}

\* The neighbours of c whose pair with c passes the two thresholds.
AcceptedNeighbours(c) ==
    {d \in Coords(volume_shape) :
        /\ {c, d} \in DOMAIN pearson
        /\ Abs(pearson[{c, d}][1]) > r_threshold
        /\ pearson[{c, d}][2] <= p_threshold}

\* c is a centre with at least min_cluster_size accepted neighbours.
QualifyingCentre(c) == Cardinality(AcceptedNeighbours(c)) >= min_cluster_size

\* Some write of a full pass is made at c.
Touched(c) ==
    \/ QualifyingCentre(c)
    \/ \E d \in Coords(volume_shape) :
           QualifyingCentre(d) /\ c \in AcceptedNeighbours(d)

\* The coordinates of the accepted neighbours of the last centre.
LastAccepted == {neighbor_indices[key] : key \in DOMAIN correlation_scores}

\* The final array of the pass in np.ndindex order, from its i-th index on.
RECURSIVE PassFrom(_, _)
PassFrom(arr, i) ==
    IF i = NVoxels(volume_shape) THEN arr
    ELSE PassFrom(ArrayAfter(arr, NdIndex(volume_shape, i)), i + 1)

\* C1: once cluster_array[c] is 2, no later update for another centre makes
\* it read 1 or 0.
C1_CentreNeverDowngraded ==
    [][\A c \in DOMAIN cluster_array :
          cluster_array[c] = 2 => cluster_array'[c] = 2]_vars

\* C2: the final cluster_array of a full pass is the same for every order in
\* which the coordinates are visited as centres (here: the same as in the
\* order of np.ndindex).
C2_OrderIndependent ==
    (pc = "done" /\ n_jobs >= 1) =>
        cluster_array = PassFrom(Zeros(volume_shape), 0)

\* C3: update_cluster_array is a gate on min_cluster_size: with fewer accepted
\* directions the array is unchanged; with at least min_cluster_size the
\* centre reads 2 and only the centre and the accepted neighbours may change.
C3_MinClusterSizeGate ==
    [][pc = "loop" =>
        LET n == Cardinality(DOMAIN correlation_scores')
        IN  /\ n < min_cluster_size => cluster_array' = cluster_array
            /\ n >= min_cluster_size =>
                /\ cluster_array'[center_index'] = 2
                /\ \A d \in Coords(volume_shape) :
                       d \notin ({center_index'} \cup LastAccepted') =>
                           cluster_array'[d] = cluster_array[d]]_vars

\* C3 witness: a centre with exactly min_cluster_size = 2 accepted neighbours
\* was written, after a centre one short of it was not.
C3_Witness ==
    /\ min_cluster_size = 2
    /\ center_index # None
    /\ Cardinality(DOMAIN correlation_scores) = min_cluster_size
    /\ cluster_array[center_index] = 2
    /\ \E c \in Coords(volume_shape) :
           /\ visits[c] = 1
           /\ Cardinality(AcceptedNeighbours(c)) = min_cluster_size - 1
           /\ cluster_array[c] = 1

\* C4: for an in-bounds centre of a volume with all dimensions >= 2,
\* get_neighbor_indices returns only in-bounds coordinates, one per kept
\* direction: 6 for an interior coordinate, 3 for a corner, 4 for an edge.
C4_NeighbourCount ==
    (/\ call.op = "get_neighbor_indices"
     /\ InBounds(volume_shape, call.arg)
     /\ \A i \in 1..3 : volume_shape[i] >= 2) =>
        LET res == call.result
            faces == Cardinality(FaceAxes(volume_shape, call.arg))
        IN  /\ call.outcome = "returned"
            /\ \A key \in DOMAIN res :
                   /\ InBounds(volume_shape, res[key])
                   /\ res[key] = Add(call.arg, DIRECTIONS[key])
            /\ faces = 0 => Cardinality(DOMAIN res) = 6
            /\ faces = 3 => Cardinality(DOMAIN res) = 3
            /\ faces = 2 => Cardinality(DOMAIN res) = 4

\* C4 witness: the call was made for an interior coordinate and gave 6.
C4_Witness ==
    /\ call.op = "get_neighbor_indices"
    /\ InBounds(volume_shape, call.arg)
    /\ FaceAxes(volume_shape, call.arg) = {}
    /\ Cardinality(DOMAIN call.result) = 6

\* C5: compute_correlation keeps a direction exactly when abs(r) > r_threshold
\* and p <= p_threshold, with its (r, p); a rejected direction is absent.
C5_AcceptedIff ==
    center_index # None =>
        /\ DOMAIN correlation_scores \subseteq DOMAIN neighbor_indices
        /\ \A key \in DOMAIN neighbor_indices :
            LET rp == pearson[{center_index, neighbor_indices[key]}]
            IN  /\ key \in DOMAIN correlation_scores <=>
                       (Abs(rp[1]) > r_threshold /\ rp[2] <= p_threshold)
                /\ key \in DOMAIN correlation_scores =>
                       correlation_scores[key] = rp

\* C5 witness: of the last centre's neighbours, one with abs(r) equal to
\* r_threshold was dropped and one with p equal to p_threshold was kept.
C5_Witness ==
    /\ center_index # None
    /\ \E key \in DOMAIN neighbor_indices :
           /\ Abs(pearson[{center_index, neighbor_indices[key]}][1])
                  = r_threshold
           /\ key \notin DOMAIN correlation_scores
    /\ \E key \in DOMAIN correlation_scores :
           /\ correlation_scores[key][2] = p_threshold
           /\ correlation_scores[key][1] < 0

\* The volumes form a VolumeSet: at least 2, all of one shape.
ValidVolumeSet(vols) ==
    /\ Len(vols) >= 2
    /\ \A i, j \in 1..Len(vols) : vols[i] = vols[j]

\* C6: constructing from volumes that do not share one shape, or from fewer
\* than 2, fails: it ends in an error (whatever its type), with no label
\* volume and no object on which find_clusters can run.
C6_ConfigurationError ==
    (pc # "new" /\ ~ValidVolumeSet(VolumesOf(args.volumes))) =>
        (pc # "ready" /\ cluster_array = None)

\* C7: cluster_array starts all zero, every entry is always in {0, 1, 2}, and
\* an entry that is non-zero never reads 0 again.
C7_LabelsMonotone ==
    /\ \A c \in DOMAIN cluster_array : cluster_array[c] = 0
    /\ [](\A c \in DOMAIN cluster_array : cluster_array[c] \in {0, 1, 2})
    /\ [][\A c \in DOMAIN cluster_array :
             cluster_array[c] # 0 => cluster_array'[c] # 0]_vars

\* C7 witness: the pass has written a 1 and a 2 and left a 0.
C7_Witness ==
    /\ pc = "done"
    /\ \E c, d, e \in DOMAIN cluster_array :
           cluster_array[c] = 2 /\ cluster_array[d] = 1 /\ cluster_array[e] = 0

\* C8: for every configured job count >= 1, find_clusters terminates, and
\* then every coordinate was given to _compute_clusters exactly once.
C8_EveryCentreOnce ==
    /\ (pc = "ready" /\ args.n_jobs >= 1) ~> (pc = "done")
    /\ []((pc = "done" /\ args.n_jobs >= 1) =>
              \A c \in Coords(volume_shape) : visits[c] = 1)

\* C8 witness: a pass over the largest volume, its job count capped, is done.
C8_Witness ==
    /\ pc = "done"
    /\ args.n_jobs > n_jobs
    /\ NVoxels(volume_shape) = MaxVoxels
    /\ \A c \in Coords(volume_shape) : visits[c] = 1

\* C9: after a complete pass a coordinate reads 0 iff it was neither a centre
\* with at least min_cluster_size accepted neighbours nor an accepted
\* neighbour of one; every other coordinate reads 1 or 2.
C9_ZeroIffUntouched ==
    (pc = "done" /\ n_jobs >= 1) =>
        \A c \in Coords(volume_shape) :
            /\ cluster_array[c] = 0 <=> ~Touched(c)
            /\ Touched(c) => cluster_array[c] \in {1, 2}

\* C9 witness: a complete pass that wrote at a coordinate which is no
\* qualifying centre, and left another coordinate at 0.
C9_Witness ==
    /\ pc = "done"
    /\ n_jobs >= 1
    /\ \E c, d \in Coords(volume_shape) :
           /\ Touched(c) /\ ~QualifyingCentre(c) /\ cluster_array[c] = 1
           /\ ~Touched(d) /\ cluster_array[d] = 0

\* C10: get_neighbor_indices or get_voxels, given a coordinate outside the
\* volume, ends in an error: it never returns neighbours or a profile as if
\* the coordinate were inside.
C10_OutOfBoundsFails ==
    (/\ call.op \in {"get_neighbor_indices", "get_voxels"}
     /\ ~InBounds(volume_shape, call.arg)) =>
        ~(call.outcome = "returned" /\ call.result # None)

====
